---- MODULE Spec2Model ----
(***************************************************************************)
(* Admission validation of the KServe InferenceService (v1beta1).          *)
(*                                                                         *)
(* The model follows pkg/apis/serving/v1beta1/inference_service_validation *)
(* .go: the webhook handlers ValidateCreate / ValidateUpdate /             *)
(* ValidateDelete, the orchestrator validateInferenceService and the rule  *)
(* evaluators it calls.  Go pointers are modelled as sequences of length   *)
(* 0 (nil) or 1, Go errors as tuples <<message, args...>> with <<>> for    *)
(* nil, and the strings the code inspects character by character (the      *)
(* name, the storage URI, the target-utilization annotation) as sequences  *)
(* of one-character strings.                                               *)
(***************************************************************************)
EXTENDS Integers, Sequences, FiniteSets, TLC

VARIABLES isvc, calls, op, result, gpuResourceTypeList, configMap, requests

vars == <<isvc, calls, op, result, gpuResourceTypeList, configMap, requests>>

-----------------------------------------------------------------------------
(* Bounds of the model *)

MaxNameLen == 3
MaxContainers == 2
MaxMetrics == 2
MaxWorkerContainers == 2
MaxImpl == 2
MaxCalls == 2
MaxConcurrent == 2

-----------------------------------------------------------------------------
(* Go values *)

Nil == <<>>
Ptr(x) == <<x>>
Deref(p) == p[1]
Opt(S) == {Nil} \cup {Ptr(x) : x \in S}

\* a run-time panic (nil pointer dereference) that escapes the handler
Panic == <<"panic: runtime error: invalid memory address or nil pointer dereference">>

\* annotations are a map[string]string: a key maps to Absent when it is not
\* in the map and to Present(value) when it is
Absent == <<>>
Present(value) == <<value>>
HasAnnotation(annotations, key) == annotations[key] # Absent
AnnotationValue(annotations, key) == annotations[key][1]
\* annotations[key], which is "" for a key that is not in the map
GetAnnotation(annotations, key) ==
    IF HasAnnotation(annotations, key) THEN AnnotationValue(annotations, key) ELSE ""

SeqsUpTo(S, n) == UNION {[1..k -> S] : k \in 0..n}

RECURSIVE FirstNonNilError(_)
FirstNonNilError(errs) ==
    IF errs = <<>> THEN Nil
    ELSE IF Head(errs) # Nil THEN Head(errs)
    ELSE FirstNonNilError(Tail(errs))

-----------------------------------------------------------------------------
(* Regular expressions, as far as IsvcNameFmt needs them: character        *)
(* classes, concatenation, `*' and `?'.  MatchEnds(re, s, i) is the set of *)
(* positions at which a match of re that starts at position i of s can     *)
(* end.                                                                    *)

LowerLetters == {"a", "b", "c", "d", "e", "f", "g", "h", "i", "j", "k", "l", "m",
                 "n", "o", "p", "q", "r", "s", "t", "u", "v", "w", "x", "y", "z"}
Digits == {"0", "1", "2", "3", "4", "5", "6", "7", "8", "9"}

ReClass(S) == [kind |-> "class", set |-> S]
ReCat(a, b) == [kind |-> "cat", left |-> a, right |-> b]
ReStar(a) == [kind |-> "star", left |-> a]
ReQuest(a) == [kind |-> "quest", left |-> a]

RECURSIVE MatchEnds(_, _, _)
RECURSIVE StarEnds(_, _, _)
MatchEnds(re, s, i) ==
    CASE re.kind = "class" ->
            IF i <= Len(s) /\ s[i] \in re.set THEN {i + 1} ELSE {}
      [] re.kind = "cat" ->
            UNION {MatchEnds(re.right, s, j) : j \in MatchEnds(re.left, s, i)}
      [] re.kind = "quest" ->
            {i} \cup MatchEnds(re.left, s, i)
      [] re.kind = "star" ->
            StarEnds(re.left, s, {i})

StarEnds(re, s, reached) ==
    LET more == reached \cup UNION {MatchEnds(re, s, j) : j \in reached}
    IN  IF more = reached THEN reached ELSE StarEnds(re, s, more)

\* regexp.MatchString: some substring matches, subject to the anchors
MatchString(rx, s) ==
    \E i \in (IF rx.anchorStart THEN {1} ELSE 1..(Len(s) + 1)) :
        \E j \in MatchEnds(rx.re, s, i) :
            rx.anchorEnd => j = Len(s) + 1

\* "[a-z]([-a-z0-9]*[a-z0-9])?"
IsvcNameFmt ==
    ReCat(ReClass(LowerLetters),
          ReQuest(ReCat(ReStar(ReClass({"-"} \cup LowerLetters \cup Digits)),
                        ReClass(LowerLetters \cup Digits))))

IsvcRegexpNoEndAnchor == [anchorStart |-> TRUE, re |-> IsvcNameFmt, anchorEnd |-> FALSE]

\* regexp.MustCompile("^" + IsvcNameFmt + "$")
IsvcRegexp == [anchorStart |-> TRUE, re |-> IsvcNameFmt, anchorEnd |-> TRUE]

validateInferenceServiceName(i) ==
    IF ~MatchString(IsvcRegexp, i.Name)
    THEN <<"InvalidISVCNameFormatError", i.Name, "[a-z]([-a-z0-9]*[a-z0-9])?">>
    ELSE Nil

-----------------------------------------------------------------------------
(* Constants of pkg/constants and of knative's autoscaling package *)

DeploymentModeKey == "serving.kserve.io/deploymentMode"
ClassAnnotationKey == "autoscaling.knative.dev/class"
AutoscalerClass == "serving.kserve.io/autoscalerClass"
AutoscalerMetrics == "serving.kserve.io/metrics"
TargetUtilizationPercentage == "serving.kserve.io/targetUtilizationPercentage"
CustomGPUResourceTypesAnnotationKey == "serving.kserve.io/gpu-resource-types"

AnnotationKeys ==
    {DeploymentModeKey, ClassAnnotationKey, AutoscalerClass, AutoscalerMetrics,
     TargetUtilizationPercentage, CustomGPUResourceTypesAnnotationKey}

RawDeployment == "RawDeployment"
HPA == "hpa.autoscaling.knative.dev"
KPA == "kpa.autoscaling.knative.dev"

AutoscalerClassHPA == "hpa"
AutoscalerClassKeda == "keda"
AutoscalerClassKPA == "kpa"
AutoscalerClassExternal == "external"
AutoscalerAllowedClassList ==
    <<AutoscalerClassHPA, AutoscalerClassKeda, AutoscalerClassKPA, AutoscalerClassExternal>>

MetricCPU == "cpu"
MetricMemory == "memory"
MetricConcurrency == "concurrency"
MetricRPS == "rps"

AutoscalerAllowedHPAMetricsList == {MetricCPU, MetricMemory}
AutoscalerAllowedKEDAMetricsList == {MetricCPU, MetricMemory}
AutoscalerAllowedKEDAMetricBackendList == {"prometheus", "graphite", "opentelemetry"}
AutoScalerKPAMetricsAllowedList == {MetricRPS, MetricConcurrency}

AutoScalerResource == "Resource"
AutoScalerExternal == "External"

TransformerContainerName == "transformer-container"
InferenceServiceContainerName == "kserve-container"
CustomSpecStorageUriEnvVarKey == "STORAGE_URI"
PipelineParallelSizeEnvName == "PIPELINE_PARALLEL_SIZE"
TensorParallelSizeEnvName == "TENSOR_PARALLEL_SIZE"

\* the GPU resource types the process-wide list holds before the cluster's
\* configuration is read, and the basic resource types
GPUResourceTypeList == {"nvidia.com/gpu", "amd.com/gpu", "intel.com/gpu", "habana.ai/gaudi"}
BasicResourceTypes == {"cpu", "memory", "storage", "ephemeral-storage"}

StorageUriPresentInTransformerError == <<"storage uri should not be specified in transformer container">>
TargetUtilizationError == <<"the target utilization percentage should be a [1-100] integer">>
ScaleMetricAutoScalingConflictError ==
    <<"There is a conflicts between ScaleMetric and AutoScaling.Please use AutoScaling if you want to use KEDA">>

-----------------------------------------------------------------------------
(* Autoscaler-class resolution *)

validateKEDAMetrics(metric) ==
    IF metric \in AutoscalerAllowedKEDAMetricsList THEN Nil
    ELSE <<"[%s] is not a supported metric in KEDA.", metric>>

validateKEDAMetricBackends(backend) ==
    IF backend \in AutoscalerAllowedKEDAMetricBackendList THEN Nil
    ELSE <<"[%s] is not a supported metric backend in KEDA.", backend>>

validateHPAMetrics(metric) ==
    IF metric \in AutoscalerAllowedHPAMetricsList THEN Nil
    ELSE <<"[%s] is not a supported metric", metric>>

validateKPAMetrics(metric) ==
    IF metric \in AutoScalerKPAMetricsAllowedList THEN Nil
    ELSE <<"[%s] is not a supported metric", metric>>

Return(err) == [returned |-> TRUE, err |-> err]
FallOut == [returned |-> FALSE, err |-> Nil]

\* the body of `for _, autoScaling := range componentExtensionSpec.AutoScaling.Metrics':
\* every branch of the switch returns, so only the first entry is looked at
KedaAutoScalingLoop(class, metrics) ==
    IF metrics = <<>> THEN FallOut
    ELSE LET autoScaling == Head(metrics)
         IN  CASE autoScaling.Type = AutoScalerResource ->
                    IF autoScaling.Resource = Nil \/ Deref(autoScaling.Resource).Name = Nil
                    THEN Return(Panic)
                    ELSE Return(validateKEDAMetrics(Deref(Deref(autoScaling.Resource).Name)))
               [] autoScaling.Type = AutoScalerExternal ->
                    IF autoScaling.External = Nil \/ Deref(autoScaling.External).Metric.Backend = Nil
                    THEN Return(Panic)
                    ELSE Return(validateKEDAMetricBackends(Deref(Deref(autoScaling.External).Metric.Backend)))
               [] OTHER ->
                    Return(<<"unknown auto scaling type class [%s] with value [%s].Valid types are Resource and External",
                             class, autoScaling.Type>>)

KedaClassCaseMetricFirst(i, class) ==
    LET componentExtensionSpec == i.Spec.Predictor.ComponentExtensionSpec
    IN  IF componentExtensionSpec.ScaleMetric # Nil
           /\ validateKEDAMetrics(Deref(componentExtensionSpec.ScaleMetric)) # Nil
        THEN Return(validateKEDAMetrics(Deref(componentExtensionSpec.ScaleMetric)))
        ELSE IF componentExtensionSpec.ScaleMetric # Nil /\ componentExtensionSpec.AutoScaling # Nil
        THEN Return(ScaleMetricAutoScalingConflictError)
        ELSE IF componentExtensionSpec.ScaleMetric # Nil
        THEN Return(Nil)
        ELSE IF componentExtensionSpec.AutoScaling # Nil
        THEN KedaAutoScalingLoop(class, Deref(componentExtensionSpec.AutoScaling).Metrics)
        ELSE FallOut

\* case constants.AutoscalerClassKeda
KedaClassCase(i, class) ==
    LET componentExtensionSpec == i.Spec.Predictor.ComponentExtensionSpec
    IN  IF componentExtensionSpec.ScaleMetric # Nil /\ componentExtensionSpec.AutoScaling # Nil
        THEN Return(ScaleMetricAutoScalingConflictError)
        ELSE IF componentExtensionSpec.ScaleMetric # Nil
        THEN Return(validateKEDAMetrics(Deref(componentExtensionSpec.ScaleMetric)))
        ELSE IF componentExtensionSpec.AutoScaling # Nil
        THEN KedaAutoScalingLoop(class, Deref(componentExtensionSpec.AutoScaling).Metrics)
        ELSE FallOut

\* the `switch class' that runs when class is an item of the allow-list
ClassSwitch(i, class) ==
    CASE class = AutoscalerClassHPA ->
            IF HasAnnotation(i.Annotations, AutoscalerMetrics)
            THEN Return(validateHPAMetrics(AnnotationValue(i.Annotations, AutoscalerMetrics)))
            ELSE Return(Nil)
      [] class = AutoscalerClassKeda -> KedaClassCase(i, class)
      [] class = AutoscalerClassExternal -> Return(Nil)
      [] OTHER -> Return(<<"unknown autoscaler class [%s]", class>>)

\* the `for _, item := range constants.AutoscalerAllowedClassList' and the
\* return that follows it
RECURSIVE ScanAllowedClasses(_, _, _)
ScanAllowedClasses(i, value, items) ==
    IF items = <<>>
    THEN <<"[%s] is not a supported autoscaler class type", value>>
    ELSE IF value = Head(items)
         THEN LET r == ClassSwitch(i, value)
              IN  IF r.returned THEN r.err ELSE ScanAllowedClasses(i, value, Tail(items))
         ELSE ScanAllowedClasses(i, value, Tail(items))

validateInferenceServiceAutoscaler(i) ==
    IF HasAnnotation(i.Annotations, AutoscalerClass)
    THEN ScanAllowedClasses(i, AnnotationValue(i.Annotations, AutoscalerClass), AutoscalerAllowedClassList)
    ELSE Nil

-----------------------------------------------------------------------------
(* Target-utilization annotation *)

DigitValue(c) ==
    CASE c = "0" -> 0 [] c = "1" -> 1 [] c = "2" -> 2 [] c = "3" -> 3 [] c = "4" -> 4
      [] c = "5" -> 5 [] c = "6" -> 6 [] c = "7" -> 7 [] c = "8" -> 8 [] c = "9" -> 9

RECURSIVE DecimalValue(_, _)
DecimalValue(s, acc) ==
    IF s = <<>> THEN acc ELSE DecimalValue(Tail(s), 10 * acc + DigitValue(Head(s)))

\* strconv.Atoi: an optional sign and at least one decimal digit
Atoi(s) ==
    LET signed == s # <<>> /\ Head(s) \in {"+", "-"}
        digits == IF signed THEN Tail(s) ELSE s
    IN  IF digits = <<>> \/ \E k \in 1..Len(digits) : digits[k] \notin Digits
        THEN [err |-> TRUE, value |-> 0]
        ELSE [err |-> FALSE,
              value |-> IF signed /\ Head(s) = "-" THEN 0 - DecimalValue(digits, 0)
                        ELSE DecimalValue(digits, 0)]

validateAutoscalerTargetUtilizationPercentage(i) ==
    IF HasAnnotation(i.Annotations, TargetUtilizationPercentage)
    THEN LET t == Atoi(AnnotationValue(i.Annotations, TargetUtilizationPercentage))
         IN  IF t.err THEN TargetUtilizationError
             ELSE IF t.value < 1 \/ t.value > 100 THEN TargetUtilizationError
             ELSE Nil
    ELSE Nil

-----------------------------------------------------------------------------
(* Multi-node validation *)

\* utils.GetEnvVarValue, as far as its `exists' result goes; Env is the set
\* of the names of the container's environment variables
EnvVarExists(env, name) == name \in env

\* the custom GPU resource types an annotation value declares (a JSON list)
ParseCustomGPUResourceTypes(value) ==
    CASE value = "[\"custom.com/gpu\"]" -> [err |-> Nil, types |-> {"custom.com/gpu"}]
      [] value = "[]" -> [err |-> Nil, types |-> {}]
      [] OTHER -> [err |-> <<"invalid GPU format(%s) for %s annotation: must be a valid JSON array",
                             value, CustomGPUResourceTypesAnnotationKey>>,
                   types |-> {}]

\* v1beta1.NewMultiNodeConfig, called once by main: the process-wide list
\* once the custom GPU resource types of the cluster's configuration are
\* appended to it
NewMultiNodeConfig(customGPUResourceTypes) == GPUResourceTypeList \cup customGPUResourceTypes

GlobalGPUResourceTypeListAppended(operation, obj) ==
    IF /\ operation \in {"create", "update"}
       /\ obj.Kind = "InferenceService"
       /\ obj.Spec.Predictor.WorkerSpec # Nil
       /\ GetAnnotation(obj.Annotations, CustomGPUResourceTypesAnnotationKey) # ""
    THEN gpuResourceTypeList
         \cup ParseCustomGPUResourceTypes(
                  AnnotationValue(obj.Annotations, CustomGPUResourceTypesAnnotationKey)).types
    ELSE gpuResourceTypeList

\* the process-wide list after a validation call: the call reads it and
\* leaves it as it is
GlobalGPUResourceTypeListAfter(operation, obj) == gpuResourceTypeList

\* utils.IsUnknownGpuResourceType: a resource that is no basic resource type
\* and is neither in the process-wide list nor declared by the annotation
IsUnknownGpuResourceType(resources, annotations) ==
    LET custom == IF GetAnnotation(annotations, CustomGPUResourceTypesAnnotationKey) # ""
                  THEN ParseCustomGPUResourceTypes(AnnotationValue(annotations, CustomGPUResourceTypesAnnotationKey))
                  ELSE [err |-> Nil, types |-> {}]
        possibleGPUResourceType == resources \ BasicResourceTypes
    IN  IF custom.err # Nil
        THEN [unknown |-> FALSE, err |-> custom.err]
        ELSE [unknown |-> possibleGPUResourceType \ (gpuResourceTypeList \cup custom.types) # {},
              err |-> Nil]

\* strings.Split(s, sep)[0]: the part of s before the first occurrence of sep
RECURSIVE SplitFirst(_, _)
SplitFirst(s, sep) ==
    IF Len(s) < Len(sep) THEN s
    ELSE IF SubSeq(s, 1, Len(sep)) = sep THEN <<>>
    ELSE <<Head(s)>> \o SplitFirst(Tail(s), sep)

SchemeSeparator == <<":", "/", "/">>
PvcProtocol == <<"p", "v", "c">>

\* the checks that run only when the predictor carries a Model
MultiNodeModelChecks(i) ==
    LET model == Deref(i.Spec.Predictor.Model)
        gpu == IsUnknownGpuResourceType(model.Resources, i.Annotations)
    IN  IF EnvVarExists(model.Env, PipelineParallelSizeEnvName)
        THEN <<"DisallowedWorkerSpecPipelineParallelSizeEnvError", i.Name>>
        ELSE IF EnvVarExists(model.Env, TensorParallelSizeEnvName)
        THEN <<"DisallowedWorkerSpecTensorParallelSizeEnvError", i.Name>>
        ELSE IF gpu.err # Nil THEN gpu.err
        ELSE IF gpu.unknown THEN <<"InvalidUnknownGPUTypeError", i.Name>>
        ELSE IF model.StorageURI = Nil THEN <<"MissingStorageURI", i.Name>>
        ELSE IF SplitFirst(Deref(model.StorageURI), SchemeSeparator) # PvcProtocol
        THEN <<"InvalidNotSupportedStorageURIProtocolError", i.Name,
               SplitFirst(Deref(model.StorageURI), SchemeSeparator)>>
        ELSE IF GetAnnotation(i.Annotations, AutoscalerClass) # AutoscalerClassExternal
        THEN <<"InvalidAutoScalerError", i.Name, GetAnnotation(i.Annotations, AutoscalerClass)>>
        ELSE Nil

\* the loop over WorkerSpec.Containers
RECURSIVE WorkerContainersGPU(_, _)
WorkerContainersGPU(i, containers) ==
    IF containers = <<>> THEN Nil
    ELSE LET gpu == IsUnknownGpuResourceType(Head(containers).Resources, i.Annotations)
         IN  IF gpu.err # Nil THEN gpu.err
             ELSE IF gpu.unknown THEN <<"InvalidUnknownGPUTypeError", i.Name>>
             ELSE WorkerContainersGPU(i, Tail(containers))

validateMultiNodeVariablesPipelineMinOne(i) ==
    IF i.Spec.Predictor.WorkerSpec # Nil
    THEN LET workerSpec == Deref(i.Spec.Predictor.WorkerSpec)
             modelErr == IF i.Spec.Predictor.Model # Nil THEN MultiNodeModelChecks(i) ELSE Nil
             pps == workerSpec.PipelineParallelSize
             tps == workerSpec.TensorParallelSize
         IN  IF Len(workerSpec.Containers) > 1
             THEN <<"DisallowedMultipleContainersInWorkerSpecError", i.Name>>
             ELSE IF modelErr # Nil THEN modelErr
             ELSE IF pps # Nil /\ Deref(pps) < 1
             THEN <<"InvalidWorkerSpecPipelineParallelSizeValueError", i.Name, Deref(pps)>>
             ELSE IF tps # Nil /\ Deref(tps) < 1
             THEN <<"InvalidWorkerSpecTensorParallelSizeValueError", i.Name, Deref(tps)>>
             ELSE WorkerContainersGPU(i, workerSpec.Containers)
    ELSE Nil

validateMultiNodeVariables(i) ==
    IF i.Spec.Predictor.WorkerSpec # Nil
    THEN LET workerSpec == Deref(i.Spec.Predictor.WorkerSpec)
             modelErr == IF i.Spec.Predictor.Model # Nil THEN MultiNodeModelChecks(i) ELSE Nil
             pps == workerSpec.PipelineParallelSize
             tps == workerSpec.TensorParallelSize
         IN  IF Len(workerSpec.Containers) > 1
             THEN <<"DisallowedMultipleContainersInWorkerSpecError", i.Name>>
             ELSE IF modelErr # Nil THEN modelErr
             ELSE IF pps # Nil /\ Deref(pps) < 2
             THEN <<"InvalidWorkerSpecPipelineParallelSizeValueError", i.Name, Deref(pps)>>
             ELSE IF tps # Nil /\ Deref(tps) < 1
             THEN <<"InvalidWorkerSpecTensorParallelSizeValueError", i.Name, Deref(tps)>>
             ELSE WorkerContainersGPU(i, workerSpec.Containers)
    ELSE Nil

-----------------------------------------------------------------------------
(* Collocation of predictor and transformer *)

RECURSIVE validateCollocationStorageURIWithoutBreak(_)
validateCollocationStorageURIWithoutBreak(containers) ==
    IF containers = <<>> THEN Nil
    ELSE IF Head(containers).Name = TransformerContainerName
            /\ CustomSpecStorageUriEnvVarKey \in Head(containers).Env
         THEN StorageUriPresentInTransformerError
         ELSE validateCollocationStorageURIWithoutBreak(Tail(containers))

\* the loop over predictorSpec.Containers: the first container that carries
\* the transformer's name decides, because of the `break'
RECURSIVE validateCollocationStorageURI(_)
validateCollocationStorageURI(containers) ==
    IF containers = <<>> THEN Nil
    ELSE IF Head(containers).Name = TransformerContainerName
         THEN IF CustomSpecStorageUriEnvVarKey \in Head(containers).Env
              THEN StorageUriPresentInTransformerError
              ELSE Nil
         ELSE validateCollocationStorageURI(Tail(containers))

-----------------------------------------------------------------------------
(* Bounds of the component extension, per autoscaler backend *)

OneMi == 1048576

validateScalingHPACompExtension(compExtSpec) ==
    LET metric == IF compExtSpec.ScaleMetric # Nil THEN Deref(compExtSpec.ScaleMetric) ELSE MetricCPU
        err == validateHPAMetrics(metric)
    IN  IF err # Nil THEN err
        ELSE IF compExtSpec.ScaleTarget # Nil
        THEN LET target == Deref(compExtSpec.ScaleTarget)
             IN  IF (metric = MetricCPU /\ target < 1) \/ target > 100
                 THEN TargetUtilizationError
                 ELSE IF metric = MetricMemory /\ target < 1
                 THEN <<"the target memory should be greater than 1 MiB">>
                 ELSE Nil
        ELSE Nil

\* one entry of AutoScaling.Metrics in validateScalingKedaCompExtension;
\* FallOut when the entry passes and the loop goes on
KedaMetricEntry(autoScaling) ==
    IF autoScaling.Type = AutoScalerResource
    THEN IF autoScaling.Resource = Nil \/ Deref(autoScaling.Resource).Name = Nil
         THEN Return(Panic)
         ELSE LET resourceName == Deref(Deref(autoScaling.Resource).Name)
                  target == Deref(autoScaling.Resource).Target
              IN  IF target.AverageUtilization = Nil
                  THEN Return(Panic)
                  ELSE IF (resourceName = MetricCPU /\ Deref(target.AverageUtilization) < 1)
                          \/ Deref(target.AverageUtilization) > 100
                  THEN Return(<<"the target utilization percentage should be a [1-100] intege">>)
                  ELSE IF resourceName = MetricMemory
                  THEN IF target.AverageValue = Nil
                       THEN Return(Panic)
                       ELSE IF Deref(target.AverageValue) < OneMi
                       THEN Return(<<"the target memory should be greater than 1 MiB">>)
                       ELSE FallOut
                  ELSE FallOut
    ELSE IF autoScaling.Type = AutoScalerExternal
    THEN IF autoScaling.External = Nil
         THEN Return(Panic)
         ELSE IF Deref(autoScaling.External).Metric.Query = ""
         THEN Return(<<"the query should not be empty">>)
         ELSE IF Deref(autoScaling.External).Target.Value = Nil
         THEN Return(<<"the Thresold value should not be empty">>)
         ELSE FallOut
    ELSE FallOut

RECURSIVE KedaMetricsLoop(_)
KedaMetricsLoop(metrics) ==
    IF metrics = <<>> THEN Nil
    ELSE LET r == KedaMetricEntry(Head(metrics))
         IN  IF r.returned THEN r.err ELSE KedaMetricsLoop(Tail(metrics))

validateScalingKedaCompExtension(compExtSpec) ==
    LET metric == IF compExtSpec.ScaleMetric # Nil THEN Deref(compExtSpec.ScaleMetric) ELSE MetricCPU
        target == Deref(compExtSpec.ScaleTarget)
    IN  IF compExtSpec.ScaleTarget # Nil /\ ((metric = MetricCPU /\ target < 1) \/ target > 100)
        THEN TargetUtilizationError
        ELSE IF compExtSpec.ScaleTarget # Nil /\ metric = MetricMemory /\ target < 1
        THEN <<"the target memory should be greater than 1 MiB">>
        ELSE IF compExtSpec.AutoScaling # Nil
        THEN KedaMetricsLoop(Deref(compExtSpec.AutoScaling).Metrics)
        ELSE Nil

validateScalingKPACompExtension(compExtSpec) ==
    IF compExtSpec.DeploymentStrategy # Nil
    THEN <<"customizing deploymentStrategy is only supported for raw deployment mode">>
    ELSE LET metric == IF compExtSpec.ScaleMetric # Nil THEN Deref(compExtSpec.ScaleMetric)
                       ELSE MetricConcurrency
             err == validateKPAMetrics(metric)
         IN  IF err # Nil THEN err
             ELSE IF compExtSpec.ScaleTarget # Nil /\ metric = MetricRPS
                     /\ Deref(compExtSpec.ScaleTarget) < 1
             THEN <<"the target for rps should be greater than 1">>
             ELSE Nil

ScalingEvaluatorByAutoscalerClass(annotations) ==
    LET deploymentMode == GetAnnotation(annotations, DeploymentModeKey)
        annotationClass == GetAnnotation(annotations, ClassAnnotationKey)
        autoscalerClass == GetAnnotation(annotations, AutoscalerClass)
    IN  IF deploymentMode = RawDeployment \/ annotationClass = HPA
           \/ autoscalerClass = AutoscalerClassHPA THEN "HPA"
        ELSE IF deploymentMode = RawDeployment \/ autoscalerClass = AutoscalerClassKeda THEN "KEDA"
        ELSE "KPA"

ScalingEvaluatorKedaCaseFirst(annotations) ==
    LET deploymentMode == GetAnnotation(annotations, DeploymentModeKey)
        annotationClass == GetAnnotation(annotations, ClassAnnotationKey)
        autoscalerClass == GetAnnotation(annotations, AutoscalerClass)
    IN  IF deploymentMode = RawDeployment \/ autoscalerClass = AutoscalerClassKeda THEN "KEDA"
        ELSE IF deploymentMode = RawDeployment \/ annotationClass = HPA THEN "HPA"
        ELSE "KPA"

\* which evaluator the switch of validateAutoScalingCompExtension selects
ScalingEvaluator(annotations) ==
    LET deploymentMode == GetAnnotation(annotations, DeploymentModeKey)
        annotationClass == GetAnnotation(annotations, ClassAnnotationKey)
        autoscalerClass == GetAnnotation(annotations, AutoscalerClass)
    IN  IF deploymentMode = RawDeployment \/ annotationClass = HPA THEN "HPA"
        ELSE IF deploymentMode = RawDeployment \/ autoscalerClass = AutoscalerClassKeda THEN "KEDA"
        ELSE "KPA"

validateAutoScalingCompExtension(annotations, compExtSpec) ==
    CASE ScalingEvaluator(annotations) = "HPA" -> validateScalingHPACompExtension(compExtSpec)
      [] ScalingEvaluator(annotations) = "KEDA" -> validateScalingKedaCompExtension(compExtSpec)
      [] OTHER -> validateScalingKPACompExtension(compExtSpec)

-----------------------------------------------------------------------------
(* Components *)

RECURSIVE CountNamed(_, _)
CountNamed(containers, name) ==
    IF containers = <<>> THEN 0
    ELSE (IF Head(containers).Name = name THEN 1 ELSE 0) + CountNamed(Tail(containers), name)

\* the number of implementation variants a component populates: for the
\* predictor its framework fields and its custom container, for the
\* transformer and the explainer the count the object carries
GetImplementations(name, component) ==
    IF name = "predictor"
    THEN (IF component.Model # Nil THEN 1 ELSE 0)
         + (IF component.SKLearn # Nil THEN 1 ELSE 0)
         + CountNamed(component.Containers, InferenceServiceContainerName)
    ELSE component.Implementations

validateExactlyOneImplementation(name, component) ==
    IF GetImplementations(name, component) # 1
    THEN <<"ExactlyOneErrorFor", name>>
    ELSE Nil

\* component.GetImplementation().Validate() and component.GetExtensions().Validate():
\* the checks intrinsic to the chosen variant and to the extension
ImplementationValidate(name, component) ==
    IF component.ImplementationInvalid THEN <<"invalid implementation", name>> ELSE Nil

ExtensionsValidate(name, component) ==
    IF component.ExtensionInvalid THEN <<"invalid extension", name>> ELSE Nil

\* the three validations of a component with exactly one implementation:
\* the slice literal evaluates all three before FirstNonNilError picks
ComponentValidations(annotations, name, component) ==
    LET scaling == validateAutoScalingCompExtension(annotations, component.ComponentExtensionSpec)
    IN  IF scaling = Panic THEN Panic
        ELSE FirstNonNilError(<<ImplementationValidate(name, component),
                                ExtensionsValidate(name, component),
                                scaling>>)

validateComponentWithoutExactlyOne(annotations, name, component) ==
    ComponentValidations(annotations, name, component)

\* the body of the loop over the components, for one component
validateComponent(annotations, name, component) ==
    IF validateExactlyOneImplementation(name, component) # Nil
    THEN validateExactlyOneImplementation(name, component)
    ELSE ComponentValidations(annotations, name, component)

\* []Component{&isvc.Spec.Predictor, isvc.Spec.Transformer, isvc.Spec.Explainer}
Components(i) ==
    <<[name |-> "predictor", component |-> Ptr(i.Spec.Predictor)],
      [name |-> "transformer", component |-> i.Spec.Transformer],
      [name |-> "explainer", component |-> i.Spec.Explainer]>>

RECURSIVE validateComponents(_, _)
validateComponents(annotations, components) ==
    IF components = <<>> THEN Nil
    ELSE LET c == Head(components)
             err == IF c.component # Nil
                    THEN validateComponent(annotations, c.name, Deref(c.component))
                    ELSE Nil
         IN  IF err # Nil THEN err ELSE validateComponents(annotations, Tail(components))

-----------------------------------------------------------------------------
(* The orchestrator *)

Returned(warnings, err) == [warnings |-> warnings, err |-> err]

validateInferenceServiceMultiNodeFirst(i) ==
    LET allWarnings == Nil
    IN  IF validateInferenceServiceName(i) # Nil
        THEN Returned(allWarnings, validateInferenceServiceName(i))
        ELSE IF validateMultiNodeVariables(i) # Nil
        THEN Returned(allWarnings, validateMultiNodeVariables(i))
        ELSE IF validateInferenceServiceAutoscaler(i) # Nil
        THEN Returned(allWarnings, validateInferenceServiceAutoscaler(i))
        ELSE IF validateAutoscalerTargetUtilizationPercentage(i) # Nil
        THEN Returned(allWarnings, validateAutoscalerTargetUtilizationPercentage(i))
        ELSE IF validateCollocationStorageURI(i.Spec.Predictor.Containers) # Nil
        THEN Returned(allWarnings, validateCollocationStorageURI(i.Spec.Predictor.Containers))
        ELSE Returned(allWarnings, validateComponents(i.Annotations, Components(i)))

validateInferenceService(i) ==
    LET allWarnings == Nil
    IN  IF validateInferenceServiceName(i) # Nil
        THEN Returned(allWarnings, validateInferenceServiceName(i))
        ELSE IF validateInferenceServiceAutoscaler(i) # Nil
        THEN Returned(allWarnings, validateInferenceServiceAutoscaler(i))
        ELSE IF validateAutoscalerTargetUtilizationPercentage(i) # Nil
        THEN Returned(allWarnings, validateAutoscalerTargetUtilizationPercentage(i))
        ELSE IF validateMultiNodeVariables(i) # Nil
        THEN Returned(allWarnings, validateMultiNodeVariables(i))
        ELSE IF validateCollocationStorageURI(i.Spec.Predictor.Containers) # Nil
        THEN Returned(allWarnings, validateCollocationStorageURI(i.Spec.Predictor.Containers))
        ELSE Returned(allWarnings, validateComponents(i.Annotations, Components(i)))

\* obj.(*InferenceService)
convertToInferenceService(obj) ==
    IF obj.Kind = "InferenceService" THEN Nil
    ELSE <<"expected an InferenceService object but got %T", obj.Kind>>

-----------------------------------------------------------------------------
(* The objects a request can carry.  An object is built from one choice    *)
(* per section; a specification lets a section range over its full menu,   *)
(* over its small menu, or fixes it to the default.                        *)

NameAlphabet == {"a", "A", "0", "-", "_"}

PvcURI == <<"p", "v", "c", ":", "/", "/", "m">>
S3URI == <<"s", "3", ":", "/", "/", "b", "/", "m">>
StorageURIs ==
    {PvcURI, S3URI, <<"p", "v", "c">>, <<>>, <<"p", "v", "c", "x", ":", "/", "/", "m">>,
     <<"p", "v", "c", ":", "/", "m">>}

TargetUtilizationValues ==
    {<<>>, <<"0">>, <<"1">>, <<"5", "0">>, <<"1", "0", "0">>, <<"1", "0", "1">>,
     <<"-", "1">>, <<"+", "7">>, <<"1", "x">>, <<"a">>}

ResourceMetric(name, utilization, value) ==
    [Type |-> AutoScalerResource,
     Resource |-> Ptr([Name |-> name,
                       Target |-> [AverageUtilization |-> utilization, AverageValue |-> value]]),
     External |-> Nil]
ExternalMetric(backend, query, value) ==
    [Type |-> AutoScalerExternal,
     Resource |-> Nil,
     External |-> Ptr([Metric |-> [Backend |-> backend, Query |-> query],
                       Target |-> [Value |-> value]])]

MetricEntries ==
    {ResourceMetric(Ptr(MetricCPU), Ptr(50), Nil),
     ResourceMetric(Ptr(MetricCPU), Ptr(150), Nil),
     ResourceMetric(Ptr(MetricMemory), Nil, Ptr(OneMi)),
     ResourceMetric(Ptr(MetricMemory), Ptr(50), Ptr(OneMi - 1)),
     ResourceMetric(Ptr(MetricRPS), Ptr(50), Nil),
     ExternalMetric(Ptr("prometheus"), "q", Ptr(10)),
     ExternalMetric(Ptr("prometheus"), "", Nil),
     ExternalMetric(Ptr("datadog"), "q", Ptr(10)),
     [Type |-> "PodMetric", Resource |-> Nil, External |-> Nil]}

ExtensionSpec(scaleMetric, scaleTarget, autoScaling, strategy) ==
    [ScaleMetric |-> scaleMetric, ScaleTarget |-> scaleTarget,
     AutoScaling |-> autoScaling, DeploymentStrategy |-> strategy]

OtherComponent(n, implInvalid, extInvalid, ext) ==
    Ptr([Implementations |-> n, ImplementationInvalid |-> implInvalid,
         ExtensionInvalid |-> extInvalid, ComponentExtensionSpec |-> ext])

OtherComponents ==
    {Nil} \cup
    {OtherComponent(n, ii, ei, ext) :
        n \in 0..MaxImpl, ii \in BOOLEAN, ei \in BOOLEAN,
        ext \in {ExtensionSpec(Nil, Nil, Nil, Nil),
                 ExtensionSpec(Nil, Nil, Nil, Ptr("RollingUpdate")),
                 ExtensionSpec(Ptr(MetricCPU), Ptr(150), Nil, Nil)}}

PredictorContainers ==
    [Name : {TransformerContainerName, InferenceServiceContainerName},
     Env : {{}, {CustomSpecStorageUriEnvVarKey}, {"LOG_LEVEL"}}]

WorkerContainers == [Resources : {{"cpu"}, {"cpu", "unknown.com/gpu"}}]

Sections ==
    {"name", "class", "metrics", "mode", "knative", "targetUtil", "gpuAnn",
     "modelSet", "modelEnv", "modelGpu", "modelUri", "sklearn", "containers",
     "workerSet", "workerContainers", "pps", "tps",
     "scaleMetric", "scaleTarget", "autoScaling", "strategy",
     "predImplInvalid", "predExtInvalid", "transformer", "explainer"}

Default(section) ==
    CASE section = "name" -> <<"a", "0">>
      [] section \in {"class", "metrics", "mode", "knative", "targetUtil", "gpuAnn"} -> Absent
      [] section = "modelSet" -> TRUE
      [] section = "modelEnv" -> {}
      [] section = "modelGpu" -> {"cpu"}
      [] section = "modelUri" -> Ptr(PvcURI)
      [] section = "containers" -> <<>>
      [] section = "workerContainers" -> <<>>
      [] section = "pps" -> Ptr(2)
      [] section = "tps" -> Ptr(1)
      [] section \in {"workerSet", "predImplInvalid", "predExtInvalid"} -> FALSE
      [] OTHER -> Nil

SmallMenu(section) ==
    {Default(section)} \cup
    CASE section = "name" -> {<<"A">>}
      [] section = "class" ->
            {Present(AutoscalerClassKeda), Present(AutoscalerClassExternal), Present("foo")}
      [] section = "metrics" -> {Present(MetricConcurrency)}
      [] section = "mode" -> {Present(RawDeployment)}
      [] section = "knative" -> {Present(HPA)}
      [] section = "targetUtil" -> {Present(<<"0">>)}
      [] section = "gpuAnn" -> {Present("[\"custom.com/gpu\"]")}
      [] section = "modelEnv" -> {{PipelineParallelSizeEnvName}}
      [] section = "modelGpu" -> {{"cpu", "unknown.com/gpu"}}
      [] section = "modelUri" -> {Ptr(S3URI)}
      [] section = "sklearn" -> {Ptr([StorageURI |-> Ptr(S3URI)])}
      [] section = "containers" ->
            {<<[Name |-> TransformerContainerName, Env |-> {CustomSpecStorageUriEnvVarKey}]>>}
      [] section = "workerContainers" -> {<<[Resources |-> {"cpu", "unknown.com/gpu"}]>>}
      [] section = "pps" -> {Ptr(1)}
      [] section = "tps" -> {Ptr(0)}
      [] section = "scaleMetric" -> {Ptr(MetricCPU)}
      [] section = "scaleTarget" -> {Ptr(150)}
      [] section = "autoScaling" -> {Ptr([Metrics |-> <<>>])}
      [] section = "strategy" -> {Ptr("RollingUpdate")}
      [] section \in {"modelSet", "workerSet", "predImplInvalid", "predExtInvalid"} -> BOOLEAN
      [] section = "transformer" ->
            {OtherComponent(1, FALSE, FALSE, ExtensionSpec(Nil, Nil, Nil, Nil)),
             OtherComponent(2, FALSE, FALSE, ExtensionSpec(Nil, Nil, Nil, Nil))}
      [] section = "explainer" ->
            {OtherComponent(0, FALSE, FALSE, ExtensionSpec(Nil, Nil, Nil, Nil)),
             OtherComponent(1, TRUE, FALSE, ExtensionSpec(Nil, Nil, Nil, Nil))}

FullMenu(section) ==
    SmallMenu(section) \cup
    CASE section = "name" -> SeqsUpTo(NameAlphabet, MaxNameLen)
      [] section = "class" ->
            {Present(AutoscalerClassHPA), Present(AutoscalerClassKPA), Present("")}
      [] section = "metrics" -> {Present(MetricCPU), Present(MetricMemory)}
      [] section = "mode" -> {Present("Serverless")}
      [] section = "knative" -> {Present(KPA)}
      [] section = "targetUtil" -> {Present(v) : v \in TargetUtilizationValues}
      [] section = "gpuAnn" -> {Present("not-json"), Present("[]")}
      [] section = "modelEnv" ->
            {{TensorParallelSizeEnvName}, {PipelineParallelSizeEnvName, TensorParallelSizeEnvName}}
      [] section = "modelGpu" -> {{"cpu", "nvidia.com/gpu"}, {"cpu", "custom.com/gpu"}}
      [] section = "modelUri" -> Opt(StorageURIs)
      [] section = "sklearn" -> {Ptr([StorageURI |-> Ptr(PvcURI)])}
      [] section = "containers" -> SeqsUpTo(PredictorContainers, MaxContainers)
      [] section = "workerContainers" -> SeqsUpTo(WorkerContainers, MaxWorkerContainers)
      [] section = "pps" -> Opt({0, 3})
      [] section = "tps" -> Opt({0 - 1, 2})
      [] section = "scaleMetric" -> Opt({MetricMemory, MetricConcurrency, MetricRPS, "bogus"})
      [] section = "scaleTarget" -> Opt({0, 1, 100, 101})
      [] section = "autoScaling" -> {Ptr([Metrics |-> m]) : m \in SeqsUpTo(MetricEntries, MaxMetrics)}
      [] section \in {"transformer", "explainer"} -> OtherComponents
      [] OTHER -> {}

Pick(section, full, small) ==
    IF section \in full THEN FullMenu(section)
    ELSE IF section \in small THEN SmallMenu(section)
    ELSE {Default(section)}

InferenceService(c) ==
    [Kind |-> "InferenceService",
     Name |-> c["name"],
     Annotations |->
        [key \in AnnotationKeys |->
            CASE key = DeploymentModeKey -> c["mode"]
              [] key = ClassAnnotationKey -> c["knative"]
              [] key = AutoscalerClass -> c["class"]
              [] key = AutoscalerMetrics -> c["metrics"]
              [] key = TargetUtilizationPercentage -> c["targetUtil"]
              [] key = CustomGPUResourceTypesAnnotationKey -> c["gpuAnn"]],
     Spec |->
        [Predictor |->
            [Model |-> IF c["modelSet"]
                       THEN Ptr([Env |-> c["modelEnv"], Resources |-> c["modelGpu"],
                                 StorageURI |-> c["modelUri"]])
                       ELSE Nil,
             SKLearn |-> c["sklearn"],
             Containers |-> c["containers"],
             WorkerSpec |-> IF c["workerSet"]
                            THEN Ptr([Containers |-> c["workerContainers"],
                                      PipelineParallelSize |-> c["pps"],
                                      TensorParallelSize |-> c["tps"]])
                            ELSE Nil,
             ComponentExtensionSpec |->
                ExtensionSpec(c["scaleMetric"], c["scaleTarget"], c["autoScaling"], c["strategy"]),
             ImplementationInvalid |-> c["predImplInvalid"],
             ExtensionInvalid |-> c["predExtInvalid"]],
         Transformer |-> c["transformer"],
         Explainer |-> c["explainer"]]]

\* an object of another kind, which the handlers refuse to convert
OtherObject == [Kind |-> "Pod"]

RECURSIVE Choices(_, _, _)
Choices(sections, full, small) ==
    IF sections = {} THEN {<<>>}
    ELSE LET section == CHOOSE x \in sections : TRUE
         IN  {(section :> v) @@ rest :
                 v \in Pick(section, full, small),
                 rest \in Choices(sections \ {section}, full, small)}

Objects(full, small) ==
    {InferenceService(c) : c \in Choices(Sections, full, small)} \cup {OtherObject}

-----------------------------------------------------------------------------
(* The webhook: each call validates the request's object and returns       *)
(* (warnings, error).  calls counts the calls made on the object, op and   *)
(* result are the operation and the outcome of the latest one.             *)

NoResult == Returned(Nil, Nil)

\* ValidateCreate(ctx, obj)
ValidateCreateResult(obj) ==
    IF convertToInferenceService(obj) # Nil
    THEN Returned(Nil, convertToInferenceService(obj))
    ELSE validateInferenceService(obj)

ValidateUpdateResultOfOld(old, new) ==
    IF convertToInferenceService(old) # Nil
    THEN Returned(Nil, convertToInferenceService(old))
    ELSE validateInferenceService(old)

\* ValidateUpdate(ctx, oldObj, newObj)
ValidateUpdateResult(old, new) ==
    IF convertToInferenceService(new) # Nil
    THEN Returned(Nil, convertToInferenceService(new))
    ELSE validateInferenceService(new)

ValidateDeleteResultValidating(obj) ==
    IF convertToInferenceService(obj) # Nil
    THEN Returned(Nil, convertToInferenceService(obj))
    ELSE validateInferenceService(obj)

\* ValidateDelete(ctx, obj)
ValidateDeleteResult(obj) ==
    IF convertToInferenceService(obj) # Nil
    THEN Returned(Nil, convertToInferenceService(obj))
    ELSE Returned(Nil, Nil)

\* the prior objects an update request can carry
OldObjects ==
    {OtherObject} \cup {InferenceService(c) : c \in Choices(Sections, {}, {"name"})}

ValidateCreate ==
    /\ calls < MaxCalls
    /\ result' = ValidateCreateResult(isvc)
    /\ op' = "create"
    /\ calls' = calls + 1
    /\ gpuResourceTypeList' = GlobalGPUResourceTypeListAfter("create", isvc)
    /\ UNCHANGED <<isvc, configMap, requests>>

ValidateUpdate ==
    /\ calls < MaxCalls
    /\ \E old \in OldObjects : result' = ValidateUpdateResult(old, isvc)
    /\ op' = "update"
    /\ calls' = calls + 1
    /\ gpuResourceTypeList' = GlobalGPUResourceTypeListAfter("update", isvc)
    /\ UNCHANGED <<isvc, configMap, requests>>

ValidateDelete ==
    /\ calls < MaxCalls
    /\ result' = ValidateDeleteResult(isvc)
    /\ op' = "delete"
    /\ calls' = calls + 1
    /\ gpuResourceTypeList' = GlobalGPUResourceTypeListAfter("delete", isvc)
    /\ UNCHANGED <<isvc, configMap, requests>>

Next == ValidateCreate \/ ValidateUpdate \/ ValidateDelete

InitWith(objects) ==
    /\ isvc \in objects
    /\ calls = 0
    /\ op = "none"
    /\ result = NoResult
    /\ configMap = {}
    /\ gpuResourceTypeList = NewMultiNodeConfig(configMap)
    /\ requests = <<>>

\* the rules against each other: every rule has passing and failing objects
Init ==
    InitWith(Objects({}, {"name", "class", "targetUtil", "mode", "workerSet", "pps", "modelUri",
                          "containers", "scaleMetric", "predImplInvalid",
                          "transformer", "explainer"}))

Spec == Init /\ [][Next]_vars

\* every name, on otherwise small objects
InitName == InitWith(Objects({"name"}, {"class"}))

SpecName == InitName /\ [][Next]_vars

\* the components of an object, per-component specifications
InitComponents ==
    InitWith(Objects({"explainer"},
                     {"name", "modelSet", "sklearn", "containers", "scaleMetric",
                      "predImplInvalid", "predExtInvalid", "transformer"}))

SpecComponents == InitComponents /\ [][Next]_vars

\* KEDA's scaling configuration: every scaleMetric and every metrics list
InitKeda == InitWith(Objects({"scaleMetric", "autoScaling"}, {"name", "class"}))

SpecKeda == InitKeda /\ [][Next]_vars

\* the annotations that select and feed the bounds evaluators
InitAutoscaler ==
    InitWith(Objects({"class", "mode", "knative", "scaleMetric", "scaleTarget"},
                     {"metrics", "autoScaling", "strategy"}))

SpecAutoscaler == InitAutoscaler /\ [][Next]_vars

\* multi-node predictors: storage URIs and parallel sizes
InitMultiNode ==
    InitWith(Objects({"modelUri", "pps", "tps"},
                     {"class", "modelSet", "modelEnv", "sklearn", "workerSet",
                      "workerContainers"}))

SpecMultiNode == InitMultiNode /\ [][Next]_vars

\* every container list of the predictor
InitCollocation ==
    InitWith(Objects({"containers"}, {"name", "modelSet", "scaleMetric"}))

SpecCollocation == InitCollocation /\ [][Next]_vars

-----------------------------------------------------------------------------
(* Concurrent calls.  The webhook server serves every request on its own   *)
(* goroutine: requests[c] is the call c, which is pending, then validating  *)
(* (the handler has been entered) and then done (the handler has returned). *)
(* A handler reads the process-wide list while it validates.                *)

CallIds == 1..MaxConcurrent

\* the answer of the handler of an operation
CallResult(operation, old, obj) ==
    CASE operation = "create" -> ValidateCreateResult(obj)
      [] operation = "update" -> ValidateUpdateResult(old, obj)
      [] operation = "delete" -> ValidateDeleteResult(obj)

\* multi-node objects whose GPU resource type is, or is not, in the
\* process-wide list or in the list their annotation declares
MultiNodeObjects ==
    {InferenceService([c EXCEPT !["workerSet"] = TRUE,
                                !["class"] = Present(AutoscalerClassExternal)]) :
        c \in {x \in Choices(Sections, {"modelGpu"}, {"gpuAnn"}) : x["modelGpu"] # {"cpu"}}}

\* the custom GPU resource types the cluster's configuration can declare
ConfigMaps == {{}, {"custom.com/gpu"}}

Receive(c) ==
    /\ requests[c].pc = "pending"
    /\ \E operation \in {"create", "update", "delete"} :
          requests' = [requests EXCEPT ![c].pc = "validating", ![c].op = operation]
    /\ UNCHANGED <<isvc, calls, op, result, gpuResourceTypeList, configMap>>

Respond(c) ==
    /\ requests[c].pc = "validating"
    /\ \E old \in OldObjects :
          requests' = [requests EXCEPT
                          ![c].pc = "done",
                          ![c].result = CallResult(requests[c].op, old, requests[c].obj)]
    /\ gpuResourceTypeList' = GlobalGPUResourceTypeListAfter(requests[c].op, requests[c].obj)
    /\ UNCHANGED <<isvc, calls, op, result, configMap>>

NextConcurrent == \E c \in CallIds : Receive(c) \/ Respond(c)

InitConcurrent ==
    /\ isvc = OtherObject
    /\ calls = 0
    /\ op = "none"
    /\ result = NoResult
    /\ configMap \in ConfigMaps
    /\ gpuResourceTypeList = NewMultiNodeConfig(configMap)
    /\ requests \in [CallIds -> [obj : MultiNodeObjects, pc : {"pending"},
                                 op : {"none"}, result : {NoResult}]]

SpecConcurrent == InitConcurrent /\ [][NextConcurrent]_vars

-----------------------------------------------------------------------------
(* What the claims are stated about *)

IsInferenceService(obj) == obj.Kind = "InferenceService"

\* a create or update request on an InferenceService has been answered
Validated == calls > 0 /\ op \in {"create", "update"} /\ IsInferenceService(isvc)

Accepted == Validated /\ result.err = Nil
Rejected == Validated /\ result.err # Nil

\* the error of the per-component validation of one component slot
ComponentError(i, k) ==
    LET c == Components(i)[k]
    IN  IF c.component = Nil THEN Nil
        ELSE validateComponent(i.Annotations, c.name, Deref(c.component))

\* the rules of the orchestrator, each evaluated on its own, in the order
\* name, autoscaler class, target utilization, multi-node, collocation,
\* predictor, transformer, explainer
RuleErrors(i) ==
    <<validateInferenceServiceName(i),
      validateInferenceServiceAutoscaler(i),
      validateAutoscalerTargetUtilizationPercentage(i),
      validateMultiNodeVariables(i),
      validateCollocationStorageURI(i.Spec.Predictor.Containers),
      ComponentError(i, 1),
      ComponentError(i, 2),
      ComponentError(i, 3)>>

\* in the rule errors r, rule k fails and no rule before it does
FirstFailing(r, k) ==
    /\ r[k] # Nil
    /\ \A j \in 1..(k - 1) : r[j] = Nil

\* C1: a create or update request is answered with the error of the earliest
\* rule that fails, in the order name, autoscaler class, target utilization,
\* multi-node, collocation, predictor, transformer, explainer; it is accepted
\* only if no rule fails, and the warnings are empty either way.
C1_FirstFailingRuleDecides ==
    Validated =>
        LET r == RuleErrors(isvc)
        IN  /\ \A k \in 1..8 : FirstFailing(r, k) => result.err = r[k]
            /\ result.err = Nil <=> \A k \in 1..8 : r[k] = Nil
            /\ result.warnings = Nil

\* several rules fail at once (autoscaler class, multi-node, collocation and
\* the predictor) and the earliest of them is the one reported
C1_Witness ==
    /\ Validated
    /\ op = "update"
    /\ LET r == RuleErrors(isvc)
       IN  /\ FirstFailing(r, 2)
           /\ r[4] # Nil
           /\ r[4] # r[2]
           /\ r[5] # Nil
           /\ r[6] # Nil
           /\ result.err = r[2]

\* the grammar [a-z]([-a-z0-9]*[a-z0-9])?, read off its shape: a lowercase
\* letter first, lowercase letters, digits and hyphens throughout, and a
\* letter or digit last
MatchesNameGrammar(name) ==
    /\ Len(name) >= 1
    /\ name[1] \in LowerLetters
    /\ \A k \in 1..Len(name) : name[k] \in LowerLetters \cup Digits \cup {"-"}
    /\ name[Len(name)] \in LowerLetters \cup Digits

UpperLetters == {"A", "B", "C", "D", "E", "F", "G", "H", "I", "J", "K", "L", "M",
                 "N", "O", "P", "Q", "R", "S", "T", "U", "V", "W", "X", "Y", "Z"}

NameError(i) == <<"InvalidISVCNameFormatError", i.Name, "[a-z]([-a-z0-9]*[a-z0-9])?">>

\* C2: name validation accepts a name exactly when the whole name matches
\* [a-z]([-a-z0-9]*[a-z0-9])?; an empty name, a name with an uppercase
\* letter, a name that starts with a digit or a hyphen and a name that ends
\* with a hyphen are rejected with the name error.
C2_NameGrammar ==
    Validated =>
        /\ validateInferenceServiceName(isvc) = Nil <=> MatchesNameGrammar(isvc.Name)
        /\ result.err = NameError(isvc) <=> ~MatchesNameGrammar(isvc.Name)
        /\ (\/ isvc.Name = <<>>
            \/ \E k \in 1..Len(isvc.Name) : isvc.Name[k] \in UpperLetters
            \/ (isvc.Name # <<>> /\ isvc.Name[1] \in Digits \cup {"-"})
            \/ (isvc.Name # <<>> /\ isvc.Name[Len(isvc.Name)] = "-"))
           => result.err = NameError(isvc)

\* a name with a hyphen in the middle and a digit last has been accepted
C2_Witness ==
    /\ Accepted
    /\ isvc.Name = <<"a", "-", "0">>

\* the rules before the per-component validation all pass
ReachesComponents(i) == \A k \in 1..5 : RuleErrors(i)[k] = Nil

\* the component slots before slot k are nil or pass their validation
ReachesComponent(i, k) ==
    /\ ReachesComponents(i)
    /\ \A j \in 1..(k - 1) : ComponentError(i, j) = Nil

\* C3: every accepted object has exactly one populated implementation on
\* each non-nil component; a predictor with zero or two populated
\* implementations is rejected; a nil transformer or explainer is skipped
\* without error; and on a non-nil component the exactly-one check comes
\* before the implementation, extension and autoscaling-bounds validation.
C3_ExactlyOneImplementation ==
    Validated =>
        /\ result.err = Nil =>
              \A k \in 1..3 :
                  LET c == Components(isvc)[k]
                  IN  c.component # Nil => GetImplementations(c.name, Deref(c.component)) = 1
        /\ GetImplementations("predictor", isvc.Spec.Predictor) \in {0, 2} => result.err # Nil
        /\ \A k \in 2..3 :
              (/\ ReachesComponent(isvc, k)
               /\ \A j \in k..3 : Components(isvc)[j].component = Nil)
              => result.err = Nil
        /\ \A k \in 1..3 :
              LET c == Components(isvc)[k]
              IN  (/\ ReachesComponent(isvc, k)
                   /\ c.component # Nil
                   /\ GetImplementations(c.name, Deref(c.component)) # 1)
                  => result.err = <<"ExactlyOneErrorFor", c.name>>

\* an explainer with two implementations, an invalid implementation and an
\* out-of-bounds scale target is refused for its number of implementations,
\* after a predictor and a transformer that pass
C3_Witness ==
    /\ Rejected
    /\ ReachesComponent(isvc, 3)
    /\ isvc.Spec.Transformer # Nil
    /\ isvc.Spec.Explainer # Nil
    /\ Deref(isvc.Spec.Explainer).Implementations = 2
    /\ Deref(isvc.Spec.Explainer).ImplementationInvalid
    /\ Deref(isvc.Spec.Explainer).ComponentExtensionSpec.ScaleMetric # Nil
    /\ result.err = <<"ExactlyOneErrorFor", "explainer">>

PredictorExtension(i) == i.Spec.Predictor.ComponentExtensionSpec

ClassAnnotationIs(i, class) ==
    HasAnnotation(i.Annotations, AutoscalerClass)
    /\ AnnotationValue(i.Annotations, AutoscalerClass) = class

\* C4: when the autoscaler-class annotation is keda and the predictor's
\* extension sets both scaleMetric and autoScaling, autoscaler-class
\* resolution returns the ScaleMetric/AutoScaling conflict error whatever the
\* two hold; the request is rejected, and with the conflict error whenever
\* the name rule, which runs first, passes.
C4_KedaConflict ==
    (/\ Validated
     /\ ClassAnnotationIs(isvc, AutoscalerClassKeda)
     /\ PredictorExtension(isvc).ScaleMetric # Nil
     /\ PredictorExtension(isvc).AutoScaling # Nil)
    => /\ validateInferenceServiceAutoscaler(isvc) = ScaleMetricAutoScalingConflictError
       /\ result.err # Nil
       /\ validateInferenceServiceName(isvc) = Nil
             => result.err = ScaleMetricAutoScalingConflictError

\* an unsupported scaleMetric next to a metrics list whose first entry is of
\* an unknown type: the conflict is what is reported
C4_Witness ==
    /\ Rejected
    /\ ClassAnnotationIs(isvc, AutoscalerClassKeda)
    /\ PredictorExtension(isvc).ScaleMetric = Ptr("bogus")
    /\ PredictorExtension(isvc).AutoScaling # Nil
    /\ Len(Deref(PredictorExtension(isvc).AutoScaling).Metrics) = 2
    /\ Deref(PredictorExtension(isvc).AutoScaling).Metrics[1].Type = "PodMetric"
    /\ result.err = ScaleMetricAutoScalingConflictError

\* the storage URI of the implementation the predictor carries
PredictorStorageURI(predictor) ==
    IF predictor.Model # Nil THEN Deref(predictor.Model).StorageURI
    ELSE IF predictor.SKLearn # Nil THEN Deref(predictor.SKLearn).StorageURI
    ELSE Nil

\* the URI reads pvc://...
HasPvcScheme(uri) ==
    Len(uri) >= 6 /\ SubSeq(uri, 1, 6) = PvcProtocol \o SchemeSeparator

\* C5: every accepted object whose predictor has a workerSpec has a storage
\* URI with the scheme pvc and the autoscaler-class annotation external,
\* whichever implementation the predictor carries.
C5_MultiNodeStorageAndAutoscaler ==
    (Accepted /\ isvc.Spec.Predictor.WorkerSpec # Nil)
    => /\ PredictorStorageURI(isvc.Spec.Predictor) # Nil
       /\ HasPvcScheme(Deref(PredictorStorageURI(isvc.Spec.Predictor)))
       /\ ClassAnnotationIs(isvc, AutoscalerClassExternal)

WorkerSpecOf(i) == Deref(i.Spec.Predictor.WorkerSpec)

PipelineSizeError(i) ==
    <<"InvalidWorkerSpecPipelineParallelSizeValueError", i.Name,
      Deref(WorkerSpecOf(i).PipelineParallelSize)>>
TensorSizeError(i) ==
    <<"InvalidWorkerSpecTensorParallelSizeValueError", i.Name,
      Deref(WorkerSpecOf(i).TensorParallelSize)>>

PipelineSizeTooSmall(i) ==
    WorkerSpecOf(i).PipelineParallelSize # Nil /\ Deref(WorkerSpecOf(i).PipelineParallelSize) < 2
TensorSizeTooSmall(i) ==
    WorkerSpecOf(i).TensorParallelSize # Nil /\ Deref(WorkerSpecOf(i).TensorParallelSize) < 1

\* the checks of multi-node validation that come before the two sizes pass
ReachesParallelSizes(i) ==
    /\ Len(WorkerSpecOf(i).Containers) <= 1
    /\ i.Spec.Predictor.Model # Nil => MultiNodeModelChecks(i) = Nil

\* C6: on a predictor with a workerSpec, multi-node validation rejects a
\* pipelineParallelSize that is set and below 2 and a tensorParallelSize that
\* is set and below 1; once the earlier multi-node checks pass the error is
\* the pipeline-size error, or the tensor-size error when only the tensor
\* size is out of range; sizes that are unset or in range never produce
\* either error, and the orchestrator returns the error when the rules
\* before multi-node validation pass.
C6_ParallelSizes ==
    (Validated /\ isvc.Spec.Predictor.WorkerSpec # Nil)
    => LET e == validateMultiNodeVariables(isvc)
       IN  /\ PipelineSizeTooSmall(isvc)
                => e # Nil /\ (ReachesParallelSizes(isvc) => e = PipelineSizeError(isvc))
           /\ TensorSizeTooSmall(isvc)
                => /\ e # Nil
                   /\ (ReachesParallelSizes(isvc) /\ ~PipelineSizeTooSmall(isvc))
                        => e = TensorSizeError(isvc)
           /\ (e # Nil /\ e[1] = "InvalidWorkerSpecPipelineParallelSizeValueError")
                => PipelineSizeTooSmall(isvc)
           /\ (e # Nil /\ e[1] = "InvalidWorkerSpecTensorParallelSizeValueError")
                => TensorSizeTooSmall(isvc)
           /\ (e # Nil /\ \A k \in 1..3 : RuleErrors(isvc)[k] = Nil) => result.err = e

\* both sizes are out of range on an otherwise passing multi-node predictor
\* and the pipeline-size error is the answer
C6_Witness ==
    /\ Rejected
    /\ isvc.Spec.Predictor.WorkerSpec # Nil
    /\ isvc.Spec.Predictor.Model # Nil
    /\ ReachesParallelSizes(isvc)
    /\ WorkerSpecOf(isvc).PipelineParallelSize = Ptr(1)
    /\ WorkerSpecOf(isvc).TensorParallelSize = Ptr(0)
    /\ result.err = PipelineSizeError(isvc)

PredictorContainersOf(i) == i.Spec.Predictor.Containers

IsTransformerContainer(container) == container.Name = TransformerContainerName
DeclaresStorageURI(container) == CustomSpecStorageUriEnvVarKey \in container.Env

\* C7 as stated: the collocation check rejects exactly when some container
\* of the predictor carries the transformer's name and declares the
\* storage-URI key.
C7_AnyTransformerContainer ==
    Validated =>
        (validateCollocationStorageURI(PredictorContainersOf(isvc)) = StorageUriPresentInTransformerError
         <=> \E k \in 1..Len(PredictorContainersOf(isvc)) :
                /\ IsTransformerContainer(PredictorContainersOf(isvc)[k])
                /\ DeclaresStorageURI(PredictorContainersOf(isvc)[k]))

\* C7, amended: the collocation check rejects exactly when the first
\* container that carries the transformer's name declares the storage-URI
\* key; a list without such a container passes, a first transformer
\* container without the key passes, the key on other containers is ignored,
\* and the orchestrator returns the collocation error exactly when the check
\* fails after the rules before it passed.
C7_FirstTransformerContainer ==
    Validated =>
        LET containers == PredictorContainersOf(isvc)
            e == validateCollocationStorageURI(containers)
            transformers == {k \in 1..Len(containers) : IsTransformerContainer(containers[k])}
            firstDeclares ==
                \E k \in transformers :
                    /\ \A j \in transformers : k <= j
                    /\ DeclaresStorageURI(containers[k])
        IN  /\ e \in {Nil, StorageUriPresentInTransformerError}
            /\ e = StorageUriPresentInTransformerError <=> firstDeclares
            /\ transformers = {} => e = Nil
            /\ (\A k \in 1..4 : RuleErrors(isvc)[k] = Nil)
                  => (result.err = StorageUriPresentInTransformerError <=> firstDeclares)

\* the key on the predictor's own container is ignored and the key on the
\* transformer's container is refused
C7_Witness ==
    /\ Rejected
    /\ Len(PredictorContainersOf(isvc)) = 2
    /\ ~IsTransformerContainer(PredictorContainersOf(isvc)[1])
    /\ DeclaresStorageURI(PredictorContainersOf(isvc)[1])
    /\ IsTransformerContainer(PredictorContainersOf(isvc)[2])
    /\ DeclaresStorageURI(PredictorContainersOf(isvc)[2])
    /\ result.err = StorageUriPresentInTransformerError

\* the scenario of C8: scaleMetric cpu, scaleTarget 150, the autoscaler-class
\* annotation hpa and no other annotation
ScaleTargetScenario(i) ==
    /\ PredictorExtension(i).ScaleMetric = Ptr(MetricCPU)
    /\ PredictorExtension(i).ScaleTarget = Ptr(150)
    /\ validateInferenceServiceName(i) = Nil

OnlyAnnotations(i, keys) ==
    \A key \in AnnotationKeys : HasAnnotation(i.Annotations, key) <=> key \in keys

\* the rest of the object passes: the rules before the components, the
\* predictor's single, valid implementation, no deployment strategy
OtherwiseValid(i) ==
    /\ ReachesComponents(i)
    /\ validateExactlyOneImplementation("predictor", i.Spec.Predictor) = Nil
    /\ ~i.Spec.Predictor.ImplementationInvalid
    /\ ~i.Spec.Predictor.ExtensionInvalid
    /\ PredictorExtension(i).DeploymentStrategy = Nil

\* C8 as stated: the scenario is rejected with the target-utilization error
\* of the HPA evaluator.
C8_RejectedByHPAEvaluator ==
    (/\ Validated
     /\ ScaleTargetScenario(isvc)
     /\ ClassAnnotationIs(isvc, AutoscalerClassHPA)
     /\ OnlyAnnotations(isvc, {AutoscalerClass}))
    => /\ ScalingEvaluator(isvc.Annotations) = "HPA"
       /\ result.err = TargetUtilizationError

\* C8, amended: with only the autoscaler-class annotation hpa the scenario is
\* rejected, but by the KPA evaluator, never with the target-utilization
\* error: an otherwise valid object gets "[cpu] is not a supported metric".
\* The HPA evaluator and its target-utilization error answer the scenario
\* when the deployment mode is RawDeployment or the knative class annotation
\* is hpa.autoscaling.knative.dev.
C8_RejectedByKPAEvaluator ==
    (Validated /\ ScaleTargetScenario(isvc))
    => /\ (ClassAnnotationIs(isvc, AutoscalerClassHPA) /\ OnlyAnnotations(isvc, {AutoscalerClass}))
            => /\ result.err # Nil
               /\ result.err # TargetUtilizationError
               /\ ScalingEvaluator(isvc.Annotations) = "KPA"
               /\ OtherwiseValid(isvc) => result.err = <<"[%s] is not a supported metric", MetricCPU>>
       /\ (\/ OnlyAnnotations(isvc, {DeploymentModeKey})
              /\ AnnotationValue(isvc.Annotations, DeploymentModeKey) = RawDeployment
           \/ OnlyAnnotations(isvc, {ClassAnnotationKey})
              /\ AnnotationValue(isvc.Annotations, ClassAnnotationKey) = HPA)
            => /\ ScalingEvaluator(isvc.Annotations) = "HPA"
               /\ result.err # Nil
               /\ OtherwiseValid(isvc) => result.err = TargetUtilizationError

\* the scenario on an otherwise valid object, refused for its metric
C8_Witness ==
    /\ Rejected
    /\ ScaleTargetScenario(isvc)
    /\ ClassAnnotationIs(isvc, AutoscalerClassHPA)
    /\ OnlyAnnotations(isvc, {AutoscalerClass})
    /\ OtherwiseValid(isvc)
    /\ result.err = <<"[%s] is not a supported metric", MetricCPU>>

AllowedClasses == {AutoscalerAllowedClassList[k] : k \in 1..Len(AutoscalerAllowedClassList)}

UnsupportedClassError(value) == <<"[%s] is not a supported autoscaler class type", value>>

\* C9: autoscaler-class resolution returns the "not a supported autoscaler
\* class" error, naming the value, exactly when the annotation is present
\* and its value is not in the allow-list; an allow-listed class is never
\* reported as unsupported.
C9_UnsupportedClassOnlyOutsideAllowList ==
    Validated =>
        LET e == validateInferenceServiceAutoscaler(isvc)
            value == AnnotationValue(isvc.Annotations, AutoscalerClass)
        IN  /\ ~HasAnnotation(isvc.Annotations, AutoscalerClass) => e = Nil
            /\ HasAnnotation(isvc.Annotations, AutoscalerClass) =>
                  (e = UnsupportedClassError(value) <=> value \notin AllowedClasses)

Deleted == calls > 0 /\ op = "delete" /\ IsInferenceService(isvc)

\* C11: a delete request on an InferenceService is always accepted, with no
\* error and no warnings, whatever the rules would say about the object on
\* create.
C11_DeleteAlwaysAccepted ==
    Deleted => result.err = Nil /\ result.warnings = Nil

\* an object that fails the autoscaler-class, multi-node, collocation and
\* predictor rules has been deleted without error
C11_Witness ==
    /\ Deleted
    /\ LET r == RuleErrors(isvc)
       IN  r[2] # Nil /\ r[4] # Nil /\ r[5] # Nil /\ r[6] # Nil
    /\ result = NoResult

\* the call c has returned
Done(c) == requests[c].pc = "done"

\* what the call c returns when it runs alone, on the list of process start
ResultAlone(c) == CallResult(requests[c].op, OtherObject, requests[c].obj)

ValidKedaEntry(entry) ==
    \/ /\ entry.Type = AutoScalerResource
       /\ entry.Resource # Nil
       /\ Deref(entry.Resource).Name # Nil
       /\ Deref(Deref(entry.Resource).Name) \in AutoscalerAllowedKEDAMetricsList
    \/ /\ entry.Type = AutoScalerExternal
       /\ entry.External # Nil
       /\ Deref(entry.External).Metric.Backend # Nil
       /\ Deref(Deref(entry.External).Metric.Backend) \in AutoscalerAllowedKEDAMetricBackendList

\* C13: with the autoscaler-class annotation keda and only autoScaling set,
\* autoscaler-class resolution fails, and the request is rejected, when any
\* entry of autoScaling.metrics is not a valid KEDA entry; resolution passes
\* only if every entry is valid.
C13_EveryKedaEntryValidated ==
    (/\ Validated
     /\ ClassAnnotationIs(isvc, AutoscalerClassKeda)
     /\ PredictorExtension(isvc).ScaleMetric = Nil
     /\ PredictorExtension(isvc).AutoScaling # Nil)
    => LET metrics == Deref(PredictorExtension(isvc).AutoScaling).Metrics
       IN  (\E k \in 1..Len(metrics) : ~ValidKedaEntry(metrics[k]))
           => /\ validateInferenceServiceAutoscaler(isvc) # Nil
              /\ result.err # Nil

TargetMemoryError == <<"the target memory should be greater than 1 MiB">>

\* the errors the HPA and KEDA evaluators give for a scaleTarget out of bounds
ScaleTargetBoundsErrors == {TargetUtilizationError, TargetMemoryError}

\* the metric a bare scaleMetric stands for under the HPA and KEDA evaluators
BareMetric(ext) == IF ext.ScaleMetric # Nil THEN Deref(ext.ScaleMetric) ELSE MetricCPU

\* C14: under the HPA and the KEDA evaluator, with a bare scaleMetric (cpu
\* when unset) and scaleTarget, a set scaleTarget is rejected on bounds
\* exactly when the metric is cpu and the target is outside [1,100] or the
\* metric is memory and the target is below 1; a memory target above 100 is
\* accepted and an unset scaleTarget is never rejected on bounds.
C14_BareScaleTargetBounds ==
    (/\ Validated
     /\ ScalingEvaluator(isvc.Annotations) \in {"HPA", "KEDA"}
     /\ PredictorExtension(isvc).AutoScaling = Nil)
    => LET ext == PredictorExtension(isvc)
           metric == BareMetric(ext)
           target == Deref(ext.ScaleTarget)
           e == validateAutoScalingCompExtension(isvc.Annotations, ext)
       IN  /\ ext.ScaleTarget = Nil => e \notin ScaleTargetBoundsErrors
           /\ ext.ScaleTarget # Nil =>
                 (e \in ScaleTargetBoundsErrors
                  <=> \/ metric = MetricCPU /\ (target < 1 \/ target > 100)
                      \/ metric = MetricMemory /\ target < 1)
           /\ (ext.ScaleTarget # Nil /\ metric = MetricMemory /\ target > 100) => e = Nil

\* an entry of autoScaling.metrics whose target is out of the KEDA bounds
KedaEntryOutOfBounds(entry) ==
    \/ /\ entry.Type = AutoScalerResource
       /\ Deref(entry.Resource).Name = Ptr(MetricCPU)
       /\ Deref(entry.Resource).Target.AverageUtilization # Nil
       /\ \/ Deref(Deref(entry.Resource).Target.AverageUtilization) < 1
          \/ Deref(Deref(entry.Resource).Target.AverageUtilization) > 100
    \/ /\ entry.Type = AutoScalerResource
       /\ Deref(entry.Resource).Name = Ptr(MetricMemory)
       /\ Deref(entry.Resource).Target.AverageValue # Nil
       /\ Deref(Deref(entry.Resource).Target.AverageValue) < OneMi
    \/ /\ entry.Type = AutoScalerExternal
       /\ \/ Deref(entry.External).Metric.Query = ""
          \/ Deref(entry.External).Target.Value = Nil

\* a Resource entry for memory that sets only an average value, of 1 MiB or more
MemoryValueOnly(entry) ==
    /\ entry.Type = AutoScalerResource
    /\ Deref(entry.Resource).Name = Ptr(MetricMemory)
    /\ Deref(entry.Resource).Target.AverageUtilization = Nil
    /\ Deref(entry.Resource).Target.AverageValue # Nil
    /\ Deref(Deref(entry.Resource).Target.AverageValue) >= OneMi

\* C15: the KEDA evaluator returns for every list of autoScaling.metrics
\* entries, and rejects exactly when some entry is a cpu entry with an
\* average utilization outside [1,100], a memory entry with an average value
\* below 1 MiB, or an External entry with an empty query or no threshold
\* value; a memory entry that sets only an average value of 1 MiB or more is
\* accepted.
C15_KedaEntryBounds ==
    (/\ Validated
     /\ ScalingEvaluator(isvc.Annotations) = "KEDA"
     /\ PredictorExtension(isvc).ScaleTarget = Nil
     /\ PredictorExtension(isvc).AutoScaling # Nil)
    => LET metrics == Deref(PredictorExtension(isvc).AutoScaling).Metrics
           e == validateScalingKedaCompExtension(PredictorExtension(isvc))
       IN  /\ e # Panic
           /\ result.err # Panic
           /\ e # Nil <=> \E k \in 1..Len(metrics) : KedaEntryOutOfBounds(metrics[k])
           /\ (\A k \in 1..Len(metrics) : MemoryValueOnly(metrics[k])) => e = Nil

\* some non-nil component of the object sets a deploymentStrategy
SetsDeploymentStrategy(i) ==
    \E k \in 1..3 :
        /\ Components(i)[k].component # Nil
        /\ Deref(Components(i)[k].component).ComponentExtensionSpec.DeploymentStrategy # Nil

\* C16: an object in which some non-nil component sets a deploymentStrategy
\* while the deployment-mode annotation is not RawDeployment is rejected,
\* whatever the class annotations are; and the KPA evaluator takes
\* concurrency for an unset metric, refuses a metric other than concurrency
\* and rps, and refuses an rps target below 1.
C16_DeploymentStrategyOnlyRaw ==
    Validated =>
        LET ext == PredictorExtension(isvc)
            metric == IF ext.ScaleMetric # Nil THEN Deref(ext.ScaleMetric) ELSE MetricConcurrency
            e == validateScalingKPACompExtension(ext)
        IN  /\ (/\ SetsDeploymentStrategy(isvc)
                /\ GetAnnotation(isvc.Annotations, DeploymentModeKey) # RawDeployment)
               => result.err # Nil
            /\ (ScalingEvaluator(isvc.Annotations) = "KPA" /\ ext.DeploymentStrategy = Nil)
               => /\ metric \notin {MetricConcurrency, MetricRPS} => e # Nil
                  /\ (metric = MetricRPS /\ ext.ScaleTarget # Nil /\ Deref(ext.ScaleTarget) < 1)
                        => e # Nil
                  /\ (ext.ScaleMetric = Nil \/ metric = MetricConcurrency) => e = Nil

\* the result of the evaluator with the given tag on an extension
EvaluatorResult(evaluator, ext) ==
    CASE evaluator = "HPA" -> validateScalingHPACompExtension(ext)
      [] evaluator = "KEDA" -> validateScalingKedaCompExtension(ext)
      [] evaluator = "KPA" -> validateScalingKPACompExtension(ext)

\* the bounds validation of every non-nil component is the result of the
\* evaluator with the given tag, and of no other
OneEvaluatorRuns(i, evaluator) ==
    \A k \in 1..3 :
        Components(i)[k].component # Nil =>
            validateAutoScalingCompExtension(
                i.Annotations, Deref(Components(i)[k].component).ComponentExtensionSpec)
            = EvaluatorResult(evaluator, Deref(Components(i)[k].component).ComponentExtensionSpec)

\* C17 as stated: RawDeployment always selects the HPA evaluator; the KEDA
\* evaluator is selected only when the mode is not RawDeployment, the knative
\* class is not HPA and the autoscaler class is keda; every other
\* combination selects the KPA evaluator.
C17_EvaluatorSelection ==
    Validated =>
        LET deploymentMode == GetAnnotation(isvc.Annotations, DeploymentModeKey)
            annotationClass == GetAnnotation(isvc.Annotations, ClassAnnotationKey)
            autoscalerClass == GetAnnotation(isvc.Annotations, AutoscalerClass)
            kedaCase == /\ deploymentMode # RawDeployment
                        /\ annotationClass # HPA
                        /\ autoscalerClass = AutoscalerClassKeda
        IN  /\ deploymentMode = RawDeployment => OneEvaluatorRuns(isvc, "HPA")
            /\ ScalingEvaluator(isvc.Annotations) = "KEDA" => kedaCase
            /\ (deploymentMode # RawDeployment /\ ~kedaCase)
                  => ScalingEvaluator(isvc.Annotations) = "KPA"

\* C17, amended: RawDeployment, and also the knative class HPA, always
\* select the HPA evaluator, whatever the autoscaler class is; the KEDA
\* evaluator is selected exactly when the mode is not RawDeployment, the
\* knative class is not HPA and the autoscaler class is keda; every other
\* combination selects the KPA evaluator; the bounds validation of a
\* component is the result of the selected evaluator alone.
C17_EvaluatorSelectionWithKnativeHPA ==
    Validated =>
        LET deploymentMode == GetAnnotation(isvc.Annotations, DeploymentModeKey)
            annotationClass == GetAnnotation(isvc.Annotations, ClassAnnotationKey)
            autoscalerClass == GetAnnotation(isvc.Annotations, AutoscalerClass)
            hpaCase == deploymentMode = RawDeployment \/ annotationClass = HPA
            kedaCase == ~hpaCase /\ autoscalerClass = AutoscalerClassKeda
        IN  /\ hpaCase => ScalingEvaluator(isvc.Annotations) = "HPA" /\ OneEvaluatorRuns(isvc, "HPA")
            /\ kedaCase => ScalingEvaluator(isvc.Annotations) = "KEDA" /\ OneEvaluatorRuns(isvc, "KEDA")
            /\ (~hpaCase /\ ~kedaCase)
                  => ScalingEvaluator(isvc.Annotations) = "KPA" /\ OneEvaluatorRuns(isvc, "KPA")

\* a raw-deployment object with the autoscaler class keda and a deployment
\* strategy has been accepted: the HPA evaluator answered, where the KPA
\* evaluator refuses the strategy
C17_Witness ==
    /\ Accepted
    /\ GetAnnotation(isvc.Annotations, DeploymentModeKey) = RawDeployment
    /\ ClassAnnotationIs(isvc, AutoscalerClassKeda)
    /\ PredictorExtension(isvc).ScaleMetric = Ptr(MetricMemory)
    /\ PredictorExtension(isvc).ScaleTarget = Ptr(1)
    /\ PredictorExtension(isvc).DeploymentStrategy # Nil
    /\ validateScalingKPACompExtension(PredictorExtension(isvc)) # Nil

\* the error of the GPU-resource-type check on a set of resources
GpuTypeCheck(i, resources) ==
    LET gpu == IsUnknownGpuResourceType(resources, i.Annotations)
    IN  IF gpu.err # Nil THEN gpu.err
        ELSE IF gpu.unknown THEN <<"InvalidUnknownGPUTypeError", i.Name>>
        ELSE Nil

\* the seven checks of multi-node validation, each on its own, in the order
\* worker containers, environment overrides, predictor GPU type, storage
\* URI, autoscaler class, parallel sizes, worker GPU types
MultiNodeChecks(i) ==
    LET predictor == i.Spec.Predictor
        workerSpec == Deref(predictor.WorkerSpec)
        uri == PredictorStorageURI(predictor)
    IN  <<IF Len(workerSpec.Containers) > 1
          THEN <<"DisallowedMultipleContainersInWorkerSpecError", i.Name>> ELSE Nil,
          IF predictor.Model # Nil /\ PipelineParallelSizeEnvName \in Deref(predictor.Model).Env
          THEN <<"DisallowedWorkerSpecPipelineParallelSizeEnvError", i.Name>>
          ELSE IF predictor.Model # Nil /\ TensorParallelSizeEnvName \in Deref(predictor.Model).Env
          THEN <<"DisallowedWorkerSpecTensorParallelSizeEnvError", i.Name>>
          ELSE Nil,
          IF predictor.Model # Nil THEN GpuTypeCheck(i, Deref(predictor.Model).Resources) ELSE Nil,
          IF uri = Nil THEN <<"MissingStorageURI", i.Name>>
          ELSE IF ~HasPvcScheme(Deref(uri))
          THEN <<"InvalidNotSupportedStorageURIProtocolError", i.Name,
                 SplitFirst(Deref(uri), SchemeSeparator)>>
          ELSE Nil,
          IF ~ClassAnnotationIs(i, AutoscalerClassExternal)
          THEN <<"InvalidAutoScalerError", i.Name, GetAnnotation(i.Annotations, AutoscalerClass)>>
          ELSE Nil,
          IF PipelineSizeTooSmall(i) THEN PipelineSizeError(i)
          ELSE IF TensorSizeTooSmall(i) THEN TensorSizeError(i)
          ELSE Nil,
          FirstNonNilError([k \in 1..Len(workerSpec.Containers) |->
                               GpuTypeCheck(i, workerSpec.Containers[k].Resources)])>>

\* C18: multi-node validation returns no error when the predictor has no
\* workerSpec; with a workerSpec it returns the error of the first failing
\* check in the order worker containers, environment overrides, predictor
\* GPU type, storage URI with scheme pvc, autoscaler class external,
\* parallel sizes, worker GPU types, and no error when no check fails.
C18_MultiNodeCheckOrder ==
    Validated =>
        IF isvc.Spec.Predictor.WorkerSpec = Nil
        THEN validateMultiNodeVariables(isvc) = Nil
        ELSE validateMultiNodeVariables(isvc) = FirstNonNilError(MultiNodeChecks(isvc))

====
